---- MODULE Spec2Model ----
(***************************************************************************)
(* A model of tapik.py: the sliding-window RateLimiter, the response       *)
(* classifier process_response, the probes that do more than call it, the  *)
(* selection parser with the endpoint catalog, and the orchestrator        *)
(* test_api_keys as main() runs it.                                        *)
(*                                                                         *)
(* A Python str is a sequence of one-character strings, so that upper(),   *)
(* lower(), `in`, startswith(), split() and int() are computed on          *)
(* characters.  Python None is the one-element sequence <<"None">>, which  *)
(* no str equals.                                                          *)
(***************************************************************************)
EXTENDS Integers, Sequences, FiniteSets, TLC

VARIABLES
    pc,             \* position of the control flow
    calls,          \* RateLimiter.calls
    period,         \* RateLimiter.period
    timestamps,     \* RateLimiter.timestamps
    clock,          \* time.time(), in ticks
    history,        \* one record per wait() that returned: begin, slept, end
    response,       \* the response handed to process_response
    verbose,        \* the verbose flag
    result,         \* what process_response / the probe returned
    search_response, \* the search response of a probe called on its own
    requests_made,  \* number of HTTP requests a probe called on its own has issued
    api_selection,  \* the --api argument
    selection_tokens, \* the tokens api_selection was written from
    selected_apis,  \* parse_api_selection(api_selection)
    api_keys,       \* the keys under test
    output_file,    \* the --output argument
    ki,             \* index of the current key in api_keys
    ai,             \* index of the current id in selected_apis
    api_results,    \* test_api_keys' result dictionary
    invoked,        \* the probe calls made so far: <<key index, id>>
    printed,        \* the result lines printed so far
    errors,         \* the logging.error calls made so far
    interrupts,     \* number of KeyboardInterrupts delivered
    exit_status,    \* the process exit status once it has ended
    file            \* the output file

limVars == <<calls, period, timestamps, clock, history>>
respVars == <<response, verbose, result>>
probeVars == <<search_response, requests_made>>
selVars == <<api_selection, selection_tokens, selected_apis>>
runVars == <<api_keys, output_file, ki, ai, api_results, invoked, printed,
             errors, interrupts, exit_status, file>>
vars == <<pc, limVars, respVars, probeVars, selVars, runVars>>

---------------------------------------------------------------------------
(* Python values and str methods *)

None == <<"None">>

LowerLetters == <<"a","b","c","d","e","f","g","h","i","j","k","l","m","n","o","p","q","r","s","t","u","v","w","x","y","z">>
UpperLetters == <<"A","B","C","D","E","F","G","H","I","J","K","L","M","N","O","P","Q","R","S","T","U","V","W","X","Y","Z">>
Digits == <<"0","1","2","3","4","5","6","7","8","9">>

IsIn(c, s) == \E i \in 1..Len(s) : s[i] = c
IndexOf(c, s) == CHOOSE i \in 1..Len(s) : s[i] = c

\* str.upper() and str.lower(), one character
ToUpper == [c \in {LowerLetters[i] : i \in 1..Len(LowerLetters)} |-> UpperLetters[IndexOf(c, LowerLetters)]]
ToLower == [c \in {UpperLetters[i] : i \in 1..Len(UpperLetters)} |-> LowerLetters[IndexOf(c, UpperLetters)]]
char_upper(c) == IF c \in DOMAIN ToUpper THEN ToUpper[c] ELSE c
char_lower(c) == IF c \in DOMAIN ToLower THEN ToLower[c] ELSE c

\* a scan that compares the text as it is
str_upper_omitted(s) == s

str_upper(s) == [i \in 1..Len(s) |-> char_upper(s[i])]
str_lower(s) == [i \in 1..Len(s) |-> char_lower(s[i])]

\* `sub in s` on str
str_in(sub, s) == \E i \in 0..(Len(s) - Len(sub)) : \A j \in 1..Len(sub) : s[i + j] = sub[j]

startswith(s, prefix) == Len(s) >= Len(prefix) /\ SubSeq(s, 1, Len(prefix)) = prefix
endswith(s, suffix) ==
    Len(s) >= Len(suffix) /\ SubSeq(s, Len(s) - Len(suffix) + 1, Len(s)) = suffix

RECURSIVE Concat(_)
Concat(ss) == IF ss = <<>> THEN <<>> ELSE Head(ss) \o Concat(Tail(ss))

Min(S) == CHOOSE x \in S : \A y \in S : x <= y

---------------------------------------------------------------------------
(* The denial vocabulary *)

UNAUTHENTICATED == <<"U","N","A","U","T","H","E","N","T","I","C","A","T","E","D">>
PERMISSION_DENIED == <<"P","E","R","M","I","S","S","I","O","N","_","D","E","N","I","E","D">>
INVALID_ARGUMENT == <<"I","N","V","A","L","I","D","_","A","R","G","U","M","E","N","T">>
REQUEST_DENIED == <<"R","E","Q","U","E","S","T","_","D","E","N","I","E","D">>
REJECTED == <<"R","E","J","E","C","T","E","D">>
BLOCKED == <<"B","L","O","C","K","E","D">>
BAD_REQUEST == <<"B","A","D"," ","R","E","Q","U","E","S","T">>
INSUFFICIENTFILEPERMISSIONS == <<"I","N","S","U","F","F","I","C","I","E","N","T","F","I","L","E","P","E","R","M","I","S","S","I","O","N","S">>
ADMIN_ONLY_OPERATION == <<"A","D","M","I","N","_","O","N","L","Y","_","O","P","E","R","A","T","I","O","N">>
WORKED == <<"W","O","R","K","E","D">>

\* the class list without its last entry
ERROR_MESSAGES_but_last ==
    << UNAUTHENTICATED, PERMISSION_DENIED, INVALID_ARGUMENT, REQUEST_DENIED, REJECTED,
       BLOCKED, BAD_REQUEST, INSUFFICIENTFILEPERMISSIONS >>

\* ApiTester.ERROR_MESSAGES, in its declared order
ERROR_MESSAGES ==
    << UNAUTHENTICATED, PERMISSION_DENIED, INVALID_ARGUMENT, REQUEST_DENIED, REJECTED,
       BLOCKED, BAD_REQUEST, INSUFFICIENTFILEPERMISSIONS, ADMIN_ONLY_OPERATION >>

\* `result in ApiTester.ERROR_MESSAGES`
in_ERROR_MESSAGES(r) == \E i \in 1..Len(ERROR_MESSAGES) : ERROR_MESSAGES[i] = r

\* the scan with the entries in the order of ApiTester.ERROR_MESSAGES
error_messages_in_class_order ==
    << UNAUTHENTICATED, PERMISSION_DENIED, INVALID_ARGUMENT, REQUEST_DENIED, REJECTED,
       BLOCKED, BAD_REQUEST, INSUFFICIENTFILEPERMISSIONS, ADMIN_ONLY_OPERATION >>

\* the list process_response scans, in its order
error_messages ==
    << ADMIN_ONLY_OPERATION, UNAUTHENTICATED, PERMISSION_DENIED, INVALID_ARGUMENT,
       REQUEST_DENIED, REJECTED, BLOCKED, BAD_REQUEST, INSUFFICIENTFILEPERMISSIONS >>

---------------------------------------------------------------------------
(* response.json(): the JSON documents of the modelled bodies *)

JsonErrorPrefix == <<"{","\"","e","r","r","o","r","\"",":","{","\"","m","e","s","s","a","g","e","\"",":","\"">>
JsonErrorSuffix == <<"\"","}","}">>
JsonErrorNoMessage == <<"{","\"","e","r","r","o","r","\"",":","{","\"","c","o","d","e","\"",":","4","0","0","}","}">>
JsonNoError == { <<"{","}">>, <<"{","\"","r","e","s","u","l","t","s","\"",":","[","]","}">> }

\* a str that holds an error object with the message m
JsonError(m) == JsonErrorPrefix \o m \o JsonErrorSuffix

\* response.json(): kind "invalid" stands for the ValueError it raises
response_json(text) ==
    IF /\ Len(text) >= Len(JsonErrorPrefix) + Len(JsonErrorSuffix)
       /\ startswith(text, JsonErrorPrefix)
       /\ endswith(text, JsonErrorSuffix)
       /\ ~IsIn("\"", SubSeq(text, Len(JsonErrorPrefix) + 1, Len(text) - Len(JsonErrorSuffix)))
    THEN [kind |-> "error_message",
          message |-> SubSeq(text, Len(JsonErrorPrefix) + 1, Len(text) - Len(JsonErrorSuffix))]
    ELSE IF text = JsonErrorNoMessage THEN [kind |-> "error_no_message", message |-> <<>>]
    ELSE IF text \in JsonNoError THEN [kind |-> "no_error", message |-> <<>>]
    ELSE [kind |-> "invalid", message |-> <<>>]

---------------------------------------------------------------------------
(* process_response *)

\* the Google error page test
is_error_page(text) == str_in(<<"<","h","t","m","l",">">>, text) /\ str_in(<<"W","e","'","r","e"," ","s","o","r","r","y",".",".",".">>, text)

\* the position in error_messages of the first entry found in text.upper(), 0 if none
first_error(text) ==
    LET up == str_upper(text)
        hits == {i \in 1..Len(error_messages) : str_in(error_messages[i], up)}
    IN  IF hits = {} THEN 0 ELSE Min(hits)

\* the try block is entered: no error page, no vocabulary entry, status >= 400
enters_json_try(resp) ==
    /\ ~is_error_page(resp.text)
    /\ first_error(resp.text) = 0
    /\ resp.status_code >= 400

\* the try block returns PERMISSION_DENIED: the status is one of an error, the
\* body parses, and its error object has a message with one of the three
\* phrasings; an exception inside the block is swallowed
auth_failure(resp) ==
    LET j == response_json(resp.text)
        m == str_lower(j.message)
    IN  /\ resp.status_code >= 400
        /\ j.kind = "error_message"
        /\ \/ str_in(<<"a","u","t","h","e","n","t","i","c","a","t","i","o","n">>, m)
           \/ str_in(<<"r","e","q","u","i","r","e","d">>, m)
           \/ str_in(<<"c","o","n","f","i","g","u","r","e","d"," ","f","o","r"," ","f","i","r","s","t","-","p","a","r","t","y">>, m)

\* the last line
fall_through(resp, verb) == IF verb THEN resp.text ELSE WORKED

process_response(resp, verb) ==
    IF is_error_page(resp.text) THEN BLOCKED
    ELSE IF first_error(resp.text) # 0 THEN error_messages[first_error(resp.text)]
    ELSE IF auth_failure(resp) THEN PERMISSION_DENIED
    ELSE fall_through(resp, verb)

---------------------------------------------------------------------------
(* Responses *)

MaxFrags == 2

\* pieces of response bodies: the vocabulary, PERMISSION_DENIED in other letter
\* cases, the two markers of the error page, text that is none of these, and
\* the three phrasings of a message that asks for authentication
Fragments ==
    { UNAUTHENTICATED, PERMISSION_DENIED, INVALID_ARGUMENT, REQUEST_DENIED, REJECTED,
      BLOCKED, BAD_REQUEST, INSUFFICIENTFILEPERMISSIONS, ADMIN_ONLY_OPERATION,
      <<"p","e","r","m","i","s","s","i","o","n","_","d","e","n","i","e","d">>, <<"P","e","r","m","i","s","s","i","o","n","_","D","e","n","i","e","d">>,
      <<"<","h","t","m","l",">">>, <<"W","e","'","r","e"," ","s","o","r","r","y",".",".",".">>,
      <<"o","k">>, <<"L","o","g","i","n"," ","R","e","q","u","i","r","e","d">>, <<"a","u","t","h","e","n","t","i","c","a","t","i","o","n">>, <<"c","o","n","f","i","g","u","r","e","d"," ","f","o","r"," ","f","i","r","s","t","-","p","a","r","t","y">> }

Messages == {Concat(l) : l \in UNION {[1..k -> Fragments] : k \in 0..MaxFrags}}

\* plain text, an error object around it, and two documents without a message
Bodies == Messages \cup {JsonError(m) : m \in Messages} \cup {JsonErrorNoMessage} \cup JsonNoError

StatusCodes == {200, 400, 403}

JsonContentType == <<"a","p","p","l","i","c","a","t","i","o","n","/","j","s","o","n">>

ClassifyResponses ==
    [status_code : StatusCodes, text : Bodies, content_type : {JsonContentType}, url : {<<>>}]

NoResponse == [status_code |-> 0, text |-> <<>>, content_type |-> None, url |-> <<>>]

---------------------------------------------------------------------------
(* Idle values of the parts a specification does not use *)

\* exit_status while the process runs
NotExited == -1

\* the output file: untouched, opened for writing (so emptied), or written
NoFile == [state |-> "absent", data |-> <<>>]

LimiterIdle ==
    /\ calls = 10
    /\ period = 1
    /\ timestamps = <<>>
    /\ clock = 0
    /\ history = <<>>

ResponseIdle ==
    /\ response = NoResponse
    /\ verbose = FALSE
    /\ result = None

ProbeIdle ==
    /\ search_response = NoResponse
    /\ requests_made = 0

SelectionIdle ==
    /\ api_selection = None
    /\ selection_tokens = <<>>
    /\ selected_apis = <<>>

RunIdle ==
    /\ api_keys = <<>>
    /\ output_file = None
    /\ ki = 0
    /\ ai = 0
    /\ api_results = <<>>
    /\ invoked = <<>>
    /\ printed = <<>>
    /\ errors = <<>>
    /\ interrupts = 0
    /\ exit_status = NotExited
    /\ file = NoFile

---------------------------------------------------------------------------
(* process_response, as the steps an interrupt can fall between *)

\* the error page test and the vocabulary scan; then the try block or the last line
Classify ==
    /\ pc = "classify"
    /\ IF enters_json_try(response)
       THEN /\ pc' = "json_try"
            /\ UNCHANGED result
       ELSE /\ pc' = "record"
            /\ result' = process_response(response, verbose)
    /\ UNCHANGED <<response, verbose, limVars, probeVars, selVars, runVars>>

\* a try block that lets the ValueError of response.json() through
JsonTryRaises ==
    /\ pc = "json_try"
    /\ IF response_json(response.text).kind = "invalid"
       THEN pc' = "ValueError" /\ UNCHANGED result
       ELSE pc' = "record" /\ result' = process_response(response, verbose)
    /\ UNCHANGED <<response, verbose, limVars, probeVars, selVars, runVars>>

\* the try block and the last line
JsonTry ==
    /\ pc = "json_try"
    /\ result' = process_response(response, verbose)
    /\ pc' = "record"
    /\ UNCHANGED <<response, verbose, limVars, probeVars, selVars, runVars>>

InitClassify ==
    /\ pc = "classify"
    /\ response \in ClassifyResponses
    /\ verbose \in BOOLEAN
    /\ result = None
    /\ LimiterIdle /\ ProbeIdle /\ SelectionIdle /\ RunIdle

NextClassify == Classify \/ JsonTry

SpecClassify == InitClassify /\ [][NextClassify]_vars

---------------------------------------------------------------------------
(* The endpoint catalog *)

\* the display names of get_api_function_by_number's table, by id
api_functions ==
    <<
       "Google Maps API - Geocode", "Google Maps API - Places Nearby",
       "Google Maps API - Place Details", "Google Maps API - Places Photos",
       "Google Maps API - Find Place From Text", "Google Maps API - Autocomplete",
       "Google Maps API - StaticMap", "Google Maps API - StreetView",
       "Google Maps API - Directions", "Google Maps API - Distance Matrix",
       "Google Maps API - Elevation", "Google Maps API - Timezone",
       "Google Maps API - Geolocation", "Google Maps API - Nearest Roads",
       "Google Maps API - Snap To Roads", "Google Maps API - Speed Limits",
       "Google Cloud Natural Language API", "Google Natural Language Sentiment API",
       "Google Vision API", "Google Cloud Text-to-Speech API",
       "Google Cloud Speech-to-Text API", "Google Cloud Video Intelligence API",
       "Google Cloud Document AI API", "Google Translate API",
       "Google Cloud Translation API", "Google Custom Search API",
       "Google Books API", "Google YouTube API",
       "Google Consumer Search", "Google Fact Check API",
       "Google PageSpeed Insights API", "Google Safe Browsing API",
       "Google Cloud Storage API", "Google BigQuery API",
       "Google Cloud Datastore API", "Google Drive API",
       "Google Sheets API", "Google Calendar API",
       "Google Tasks API", "Google People API",
       "Google Blogger API", "Google Civic API",
       "Google WebFonts API", "Firebase Authentication API"
    >>

\* get_api_function_by_number(number) is not None
has_api_function(number) == number \in DOMAIN api_functions

\* the probes that do more than hand one response to process_response
probe_kind(number) ==
    CASE number = 4 -> "photos"
      [] number \in {7, 8} -> "image"
      [] number = 33 -> "storage"
      [] number = 44 -> "firebase"
      [] OTHER -> "plain"

---------------------------------------------------------------------------
(* parse_api_selection *)

\* str.split(sep) for a one-character separator
RECURSIVE split(_, _)
split(s, sep) ==
    IF ~IsIn(sep, s) THEN <<s>>
    ELSE LET i == Min({k \in 1..Len(s) : s[k] = sep})
         IN  <<SubSeq(s, 1, i - 1)>> \o split(SubSeq(s, i + 1, Len(s)), sep)

\* int(s) succeeds: here, on a non-empty run of decimal digits
is_int(s) == s # <<>> /\ \A i \in 1..Len(s) : IsIn(s[i], Digits)

RECURSIVE int(_)
int(s) ==
    IF Len(s) = 1 THEN IndexOf(s[1], Digits) - 1
    ELSE 10 * int(SubSeq(s, 1, Len(s) - 1)) + IndexOf(s[Len(s)], Digits) - 1

\* range(start, stop)
py_range(start, stop) == start..(stop - 1)

RECURSIVE sorted(_)
sorted(S) == IF S = {} THEN <<>> ELSE <<Min(S)>> \o sorted(S \ {Min(S)})

\* the ids of every endpoint but the last
all_apis_but_last == [i \in 1..43 |-> i]

\* list(range(1,45))
all_apis == [i \in 1..44 |-> i]

\* one part of the selection parses
part_parses(part) ==
    IF IsIn("-", part)
    THEN LET ends == split(part, "-")
         IN  Len(ends) = 2 /\ is_int(ends[1]) /\ is_int(ends[2])
    ELSE is_int(part)

\* what one part adds to the result set
part_ids(part) ==
    IF IsIn("-", part)
    THEN LET ends == split(part, "-")
         IN  py_range(int(ends[1]), int(ends[2]) + 1)
    ELSE {int(part)}

\* parse_api_selection(sel) raises ValueError: an int() or the unpacking of a part fails
parse_api_selection_raises(sel) ==
    /\ sel # None
    /\ sel # <<>>
    /\ \E i \in 1..Len(split(sel, ",")) : ~part_parses(split(sel, ",")[i])

\* the parts' ids appended in the order written
parse_api_selection_unsorted(sel) ==
    IF sel = None \/ sel = <<>> THEN all_apis
    ELSE LET parts == split(sel, ",")
         IN  Concat([i \in 1..Len(parts) |-> sorted(part_ids(parts[i]))])

\* what parse_api_selection(sel) returns when it does not raise
parse_api_selection(sel) ==
    IF sel = None \/ sel = <<>> THEN all_apis
    ELSE LET parts == split(sel, ",")
         IN  sorted(UNION {part_ids(parts[i]) : i \in 1..Len(parts)})

---------------------------------------------------------------------------
(* Selection strings *)

MaxNum == 1
MaxTokens == 3
LastId == 44

\* the numbers written in selections: the small ones and the last id
Nums == (0..MaxNum) \cup {LastId}

\* a token is <<n>> for the integer n or <<a, b>> for the range a-b
Tokens == {<<n>> : n \in Nums} \cup (Nums \X Nums)

RECURSIVE decimal(_)
decimal(n) == IF n < 10 THEN <<Digits[n + 1]>> ELSE decimal(n \div 10) \o <<Digits[(n % 10) + 1]>>

token_str(t) == IF Len(t) = 1 THEN decimal(t[1]) ELSE decimal(t[1]) \o <<"-">> \o decimal(t[2])

RECURSIVE selection_str(_)
selection_str(ts) ==
    IF Len(ts) = 1 THEN token_str(ts[1])
    ELSE token_str(ts[1]) \o <<",">> \o selection_str(Tail(ts))

TokenLists == UNION {[1..k -> Tokens] : k \in 1..MaxTokens}

\* selection strings that are not of the grammar
Malformed == { <<"1",",",",","2">>, <<"1","-","2","-","3">>, <<"1","-">> }

InitParse ==
    /\ pc = "parse"
    /\ \/ selection_tokens = <<>> /\ api_selection \in {None, <<>>}
       \/ selection_tokens \in TokenLists /\ api_selection = selection_str(selection_tokens)
       \/ selection_tokens = <<>> /\ api_selection \in Malformed
    /\ selected_apis = <<>>
    /\ LimiterIdle /\ ResponseIdle /\ ProbeIdle /\ RunIdle

Parse ==
    /\ pc = "parse"
    /\ IF parse_api_selection_raises(api_selection)
       THEN pc' = "ValueError" /\ UNCHANGED selected_apis
       ELSE pc' = "parsed" /\ selected_apis' = parse_api_selection(api_selection)
    /\ UNCHANGED <<api_selection, selection_tokens, limVars, probeVars, respVars, runVars>>

NextParse == Parse

SpecParse == InitParse /\ [][NextParse]_vars

---------------------------------------------------------------------------
(* RateLimiter *)

MaxCalls == 2
MaxPeriod == 2
MaxWaits == 4
MaxGap == 2

\* a window that forgets every timestamp
kept_timestamps_none(now) == SelectSeq(timestamps, LAMBDA t : FALSE)

\* the timestamps wait() keeps: those not older than period
kept_timestamps(now) == SelectSeq(timestamps, LAMBDA t : now - t <= period)

\* wait() from its first line to its last; sleeps holds the arguments of its
\* calls of time.sleep; with calls = 0 and nothing kept,
\* self.timestamps[0] raises IndexError after the pruned list was stored
Wait ==
    /\ pc = "limiter"
    /\ Len(history) < MaxWaits
    /\ LET now == clock
           kept == kept_timestamps(now)
       IN  IF Len(kept) >= calls /\ kept = <<>>
           THEN /\ pc' = "IndexError"
                /\ timestamps' = kept
                /\ UNCHANGED <<clock, history>>
           ELSE LET sleep_time == IF Len(kept) >= calls THEN kept[1] + period - now ELSE 0
                    slept == IF sleep_time > 0 THEN sleep_time ELSE 0
                IN  /\ clock' = clock + slept
                    /\ timestamps' = Append(kept, now)
                    /\ history' = Append(history,
                           [begin |-> now, slept |-> slept, end |-> clock + slept,
                            sleeps |-> IF sleep_time > 0 THEN <<sleep_time>> ELSE <<>>])
                    /\ pc' = pc
    /\ UNCHANGED <<calls, period, respVars, probeVars, selVars, runVars>>

\* time passes between the return of one wait() and the next call
Advance ==
    /\ pc = "limiter"
    /\ Len(history) < MaxWaits
    /\ clock = IF history = <<>> THEN 0 ELSE history[Len(history)].end
    /\ \E d \in 1..MaxGap : clock' = clock + d
    /\ UNCHANGED <<pc, calls, period, timestamps, history, respVars, probeVars, selVars, runVars>>

InitLimiter ==
    /\ pc = "limiter"
    /\ calls \in 0..MaxCalls
    /\ period \in 0..MaxPeriod
    /\ timestamps = <<>>
    /\ clock = 0
    /\ history = <<>>
    /\ ResponseIdle /\ ProbeIdle /\ SelectionIdle /\ RunIdle

NextLimiter == Wait \/ Advance

SpecLimiter == InitLimiter /\ [][NextLimiter]_vars

---------------------------------------------------------------------------
(* The probes *)

\* requests.get / requests.post raised instead of returning a response
ConnectionError == [status_code |-> 0, text |-> <<>>, content_type |-> None, url |-> <<"C","o","n","n","e","c","t","i","o","n","E","r","r","o","r">>]

ImageContentType == <<"i","m","a","g","e","/","p","n","g">>

\* bodies of the responses the runs draw from
RunBodies ==
    { <<"{","\"","r","e","s","u","l","t","s","\"",":","[","]","}">>,
      JsonError(PERMISSION_DENIED),
      JsonError(<<"L","o","g","i","n"," ","R","e","q","u","i","r","e","d">>) }

\* the body by which the Firebase probe knows a valid key
MissingEmailBody == JsonError(<<"M","I","S","S","I","N","G","_","E","M","A","I","L">>)

\* What a request of a probe can get.  A probe that does not read the
\* Content-Type header is given one content type (None: the header is absent),
\* and the Firebase probe alone is given the MISSING_EMAIL body.
ResponsesOf(number) ==
    [status_code : StatusCodes,
     text : RunBodies \cup (IF probe_kind(number) = "firebase" THEN {MissingEmailBody} ELSE {}),
     content_type : IF probe_kind(number) = "image"
                    THEN {JsonContentType, ImageContentType, None}
                    ELSE {JsonContentType},
     url : {<<>>}]
    \cup {ConnectionError}

\* the URL the image probes request, which requests reports as response.url
request_url(number, api_key) ==
    CASE number = 7 ->
           <<"h","t","t","p","s",":","/","/","m","a","p","s",".","g","o","o","g","l","e","a","p","i","s",".","c","o","m","/","m","a","p","s","/","a","p","i","/","s","t","a","t","i","c","m","a","p","?","c","e","n","t","e","r","=","4","5","%","2","C","1","0","&","z","o","o","m","=","7","&","s","i","z","e","=","4","0","0","x","4","0","0","&","k","e","y","=">> \o api_key
      [] number = 8 ->
           <<"h","t","t","p","s",":","/","/","m","a","p","s",".","g","o","o","g","l","e","a","p","i","s",".","c","o","m","/","m","a","p","s","/","a","p","i","/","s","t","r","e","e","t","v","i","e","w","?","s","i","z","e","=","4","0","0","x","4","0","0","&","l","o","c","a","t","i","o","n","=","4","0",".","7","2","0","0","3","2",",","-","7","3",".","9","8","8","3","5","4","&","f","o","v","=","9","0","&","h","e","a","d","i","n","g","=","2","3","5","&","p","i","t","c","h","=","1","0","&","k","e","y","=">> \o api_key
      [] OTHER -> <<>>

\* bodies of the Places Photos probe's search response
SearchPrefix == <<"{","\"","c","a","n","d","i","d","a","t","e","s","\"",":","[","{","\"","p","h","o","t","o","s","\"",":","[","{","\"","p","h","o","t","o","_","r","e","f","e","r","e","n","c","e","\"",":","\"">>
SearchSuffix == <<"\"","}","]","}","]","}">>
SearchWithReference == SearchPrefix \o <<"A","a","p","_","u","E","A","7">> \o SearchSuffix
SearchNoCandidatesKey == <<"{","\"","s","t","a","t","u","s","\"",":","\"","R","E","Q","U","E","S","T","_","D","E","N","I","E","D","\"","}">>
SearchNoCandidates == <<"{","\"","c","a","n","d","i","d","a","t","e","s","\"",":","[","]","}">>
SearchNoPhotos == <<"{","\"","c","a","n","d","i","d","a","t","e","s","\"",":","[","{","}","]","}">>
SearchEmptyPhotos == <<"{","\"","c","a","n","d","i","d","a","t","e","s","\"",":","[","{","\"","p","h","o","t","o","s","\"",":","[","]","}","]","}">>
SearchNoReference == <<"{","\"","c","a","n","d","i","d","a","t","e","s","\"",":","[","{","\"","p","h","o","t","o","s","\"",":","[","{","}","]","}","]","}">>
SearchNotJson == <<"<","h","t","m","l",">">>

SearchBodies ==
    { SearchWithReference, SearchNoCandidatesKey, SearchNoCandidates, SearchNoPhotos,
      SearchEmptyPhotos, SearchNoReference, SearchNotJson }

\* what lines 221-225 do with the search body: "reference" when a photo reference
\* is read, "fallback" when an if fails, "raise" when json.loads or a subscript raises
search_outcome(text) ==
    IF startswith(text, SearchPrefix) /\ endswith(text, SearchSuffix)
       /\ Len(text) >= Len(SearchPrefix) + Len(SearchSuffix)
    THEN "reference"
    ELSE IF text \in {SearchNoCandidatesKey, SearchNoCandidates, SearchNoPhotos} THEN "fallback"
    ELSE "raise"

\* What a probe does with what it receives, up to its call of process_response.
\*   [do |-> "raise"]                    an exception leaves the probe
\*   [do |-> "return", value |-> v]      the probe returns v itself
\*   [do |-> "logged_return", ...]       the same, after a logging.error of its own
\*   [do |-> "classify", resp |-> r]     the probe returns process_response(r, verbose)
\* requests is the number of HTTP requests the probe has issued by then.
probe(number, api_key, search, resp, verb) ==
    LET kind == probe_kind(number)
        r == [resp EXCEPT !.url = request_url(number, api_key)]
    IN  CASE kind = "photos" ->
               IF search = ConnectionError \/ search_outcome(search.text) = "raise"
               THEN [do |-> "raise", requests |-> 1]
               ELSE IF search_outcome(search.text) = "fallback"
               THEN [do |-> "return", value |-> BAD_REQUEST, requests |-> 1]
               ELSE IF resp = ConnectionError THEN [do |-> "raise", requests |-> 2]
               ELSE [do |-> "classify", resp |-> r, requests |-> 2]
          [] kind = "image" ->
               IF resp = ConnectionError \/ resp.content_type = None
               THEN [do |-> "raise", requests |-> 1]
               ELSE IF startswith(resp.content_type, <<"i","m","a","g","e","/">>) /\ verb
               THEN [do |-> "return", value |-> <<"[","!","]"," ","I","m","a","g","e"," ","U","R","L",":"," ">> \o r.url, requests |-> 1]
               ELSE [do |-> "classify", resp |-> r, requests |-> 1]
          [] kind = "storage" ->
               IF resp = ConnectionError
               THEN [do |-> "logged_return", value |-> BAD_REQUEST, requests |-> 1]
               ELSE IF resp.status_code \in {401, 403}
               THEN [do |-> "return", value |-> PERMISSION_DENIED, requests |-> 1]
               ELSE [do |-> "classify", resp |-> r, requests |-> 1]
          [] kind = "firebase" ->
               IF resp = ConnectionError THEN [do |-> "raise", requests |-> 1]
               ELSE IF resp.status_code = 400 /\ str_in(<<"M","I","S","S","I","N","G","_","E","M","A","I","L">>, resp.text)
               THEN [do |-> "return", value |-> IF verb THEN resp.text ELSE WORKED,
                     requests |-> 1]
               ELSE [do |-> "classify", resp |-> r, requests |-> 1]
          [] OTHER ->
               IF resp = ConnectionError THEN [do |-> "raise", requests |-> 1]
               ELSE [do |-> "classify", resp |-> r, requests |-> 1]

---------------------------------------------------------------------------
(* test_api_keys and main *)

MaxKeys == 2
MaxInterrupts == 1

KeyA == <<"A","I","z","a","A">>
KeyB == <<"A","I","z","a","B">>
Keys == {KeyA, KeyB}

\* the key lists of the runs; a key is opaque, so the first one is KeyA
KeyLists == {l \in UNION {[1..k -> Keys] : k \in 0..MaxKeys} : l = <<>> \/ l[1] = KeyA}

\* the selections of the runs, as token lists: 1-2 / 4 / 7 / 33 / 44 / 45,1
RunSelections ==
    { << <<1, 2>> >>, << <<4>> >>, << <<7>> >>, << <<33>> >>, << <<LastId>> >>, << <<45>>, <<1>> >> }

OutputPath == <<"o","u","t",".","j","s","o","n">>

\* d[k] = v on a dict
dict_set(d, k, v) == [x \in (DOMAIN d) \cup {k} |-> IF x = k THEN v ELSE d[x]]

\* `if output_file:`
truthy(s) == s # None /\ s # <<>>

\* save_results_to_file's output_data with the keys that have no entry left out
output_data_without_empty(results) ==
    [k \in {x \in DOMAIN results : DOMAIN results[x] # {}} |->
        [n \in DOMAIN results[k] |-> "Success"]]

\* save_results_to_file's output_data
output_data(results) == [k \in DOMAIN results |-> [n \in DOMAIN results[k] |-> "Success"]]

InitRun ==
    /\ pc = "start"
    /\ api_keys \in KeyLists
    /\ verbose \in BOOLEAN
    /\ output_file \in {None, OutputPath}
    /\ selection_tokens \in RunSelections
    /\ api_selection = selection_str(selection_tokens)
    /\ selected_apis = <<>>
    /\ response = NoResponse
    /\ result = None
    /\ ki = 0
    /\ ai = 0
    /\ api_results = <<>>
    /\ invoked = <<>>
    /\ printed = <<>>
    /\ errors = <<>>
    /\ interrupts = 0
    /\ exit_status = NotExited
    /\ file = NoFile
    /\ LimiterIdle /\ ProbeIdle

\* lines 738-739; a ValueError of parse_api_selection is caught nowhere
StartRun ==
    /\ pc = "start"
    /\ api_results' = <<>>
    /\ IF parse_api_selection_raises(api_selection)
       THEN pc' = "uncaught" /\ exit_status' = 1 /\ UNCHANGED selected_apis
       ELSE /\ pc' = "key_loop"
            /\ selected_apis' = parse_api_selection(api_selection)
            /\ UNCHANGED exit_status
    /\ UNCHANGED <<api_selection, selection_tokens, api_keys, output_file, ki, ai, invoked,
                   printed, errors, interrupts, file, limVars, probeVars, respVars>>

\* for key in api_keys: the next key gets an empty entry and its header
NextKey ==
    /\ pc = "key_loop"
    /\ ki < Len(api_keys)
    /\ ki' = ki + 1
    /\ ai' = 0
    /\ api_results' = dict_set(api_results, api_keys[ki + 1], <<>>)
    /\ pc' = "api_loop"
    /\ UNCHANGED <<api_keys, output_file, invoked, printed, errors, interrupts, exit_status,
                   file, limVars, probeVars, respVars, selVars>>

\* the key loop left at any key
EndOfKeysEarly ==
    /\ pc = "key_loop"
    /\ ki <= Len(api_keys)
    /\ pc' = "save"
    /\ UNCHANGED <<limVars, probeVars, respVars, selVars, runVars>>

\* the keys are exhausted
EndOfKeys ==
    /\ pc = "key_loop"
    /\ ki = Len(api_keys)
    /\ pc' = "save"
    /\ UNCHANGED <<limVars, probeVars, respVars, selVars, runVars>>

\* for api_num in selected_apis: the id has a descriptor, its probe is called
CallProbe ==
    /\ pc = "api_loop"
    /\ ai < Len(selected_apis)
    /\ has_api_function(selected_apis[ai + 1])
    /\ ai' = ai + 1
    /\ invoked' = Append(invoked, <<ki, selected_apis[ai + 1]>>)
    /\ pc' = "probe"
    /\ UNCHANGED <<api_keys, output_file, ki, api_results, printed, errors, interrupts,
                   exit_status, file, limVars, probeVars, respVars, selVars>>

\* the id has no descriptor
SkipUnknown ==
    /\ pc = "api_loop"
    /\ ai < Len(selected_apis)
    /\ ~has_api_function(selected_apis[ai + 1])
    /\ ai' = ai + 1
    /\ UNCHANGED <<pc, api_keys, output_file, ki, api_results, invoked, printed, errors,
                   interrupts, exit_status, file, limVars, probeVars, respVars, selVars>>

\* the selected ids are exhausted for this key
EndOfApis ==
    /\ pc = "api_loop"
    /\ ai = Len(selected_apis)
    /\ pc' = "key_loop"
    /\ UNCHANGED <<limVars, probeVars, respVars, selVars, runVars>>

\* what the probe of the current pair does with a search response and a response
CurrentProbe(search, resp) ==
    probe(selected_apis[ai], api_keys[ki], search, resp, verbose)

SearchResponses ==
    {[status_code |-> 200, text |-> b, content_type |-> JsonContentType, url |-> <<>>] :
        b \in SearchBodies} \cup {ConnectionError}

\* the search response matters to the Places Photos probe alone
SearchesOf(number) ==
    IF probe_kind(number) = "photos" THEN SearchResponses ELSE {NoResponse}

\* the probe hands a response to process_response, which returns from the
\* error page test or the vocabulary scan, or enters its try block
ProbeClassifies ==
    /\ pc = "probe"
    /\ \E search \in SearchesOf(selected_apis[ai]), resp \in ResponsesOf(selected_apis[ai]) :
          /\ CurrentProbe(search, resp).do = "classify"
          /\ IF enters_json_try(CurrentProbe(search, resp).resp)
             THEN /\ response' = CurrentProbe(search, resp).resp
                  /\ pc' = "json_try"
                  /\ UNCHANGED result
             ELSE /\ result' = process_response(CurrentProbe(search, resp).resp, verbose)
                  /\ pc' = "record"
                  /\ UNCHANGED response
    /\ UNCHANGED <<verbose, limVars, probeVars, selVars, runVars>>

\* the probe returns without process_response
ProbeReturns ==
    /\ pc = "probe"
    /\ \E search \in SearchesOf(selected_apis[ai]), resp \in ResponsesOf(selected_apis[ai]) :
          /\ CurrentProbe(search, resp).do \in {"return", "logged_return"}
          /\ result' = CurrentProbe(search, resp).value
          /\ errors' = IF CurrentProbe(search, resp).do = "logged_return"
                       THEN Append(errors, [by |-> "probe", ki |-> ki, api_num |-> selected_apis[ai]])
                       ELSE errors
    /\ pc' = "record"
    /\ UNCHANGED <<response, verbose, api_keys, output_file, ki, ai, api_results, invoked,
                   printed, interrupts, exit_status, file, limVars, probeVars, selVars>>

\* an exception in the probe ends the rest of the key's ids
ProbeRaisesEndsKey ==
    /\ pc = "probe"
    /\ \E search \in SearchesOf(selected_apis[ai]), resp \in ResponsesOf(selected_apis[ai]) :
          CurrentProbe(search, resp).do = "raise"
    /\ errors' = Append(errors, [by |-> "test_api_keys", ki |-> ki, api_num |-> selected_apis[ai]])
    /\ pc' = "key_loop"
    /\ UNCHANGED <<api_keys, output_file, ki, ai, api_results, invoked, printed, interrupts,
                   exit_status, file, limVars, probeVars, respVars, selVars>>

\* the probe raises: except Exception logs it and the loop goes on
ProbeRaises ==
    /\ pc = "probe"
    /\ \E search \in SearchesOf(selected_apis[ai]), resp \in ResponsesOf(selected_apis[ai]) :
          CurrentProbe(search, resp).do = "raise"
    /\ errors' = Append(errors, [by |-> "test_api_keys", ki |-> ki, api_num |-> selected_apis[ai]])
    /\ pc' = "api_loop"
    /\ UNCHANGED <<api_keys, output_file, ki, ai, api_results, invoked, printed, interrupts,
                   exit_status, file, limVars, probeVars, respVars, selVars>>

\* the result handling with no line for a denial
RecordSuccessesOnly ==
    /\ pc = "record"
    /\ ki >= 1
    /\ IF in_ERROR_MESSAGES(result)
       THEN UNCHANGED <<printed, api_results>>
       ELSE /\ api_results' =
                 dict_set(api_results, api_keys[ki],
                          dict_set(api_results[api_keys[ki]], api_functions[selected_apis[ai]], result))
            /\ printed' = Append(printed, [ki |-> ki, api_num |-> selected_apis[ai], status |-> WORKED])
    /\ response' = NoResponse
    /\ result' = None
    /\ pc' = "api_loop"
    /\ UNCHANGED <<verbose, api_keys, output_file, ki, ai, invoked, errors, interrupts,
                   exit_status, file, limVars, probeVars, selVars>>

\* lines 760-773: a denial is printed; anything else is stored and printed as
\* WORKED.  The iteration ends, and with it the probe's response and its result.
Record ==
    /\ pc = "record"
    /\ ki >= 1
    /\ IF in_ERROR_MESSAGES(result)
       THEN /\ printed' = Append(printed, [ki |-> ki, api_num |-> selected_apis[ai], status |-> result])
            /\ UNCHANGED api_results
       ELSE /\ api_results' =
                 dict_set(api_results, api_keys[ki],
                          dict_set(api_results[api_keys[ki]], api_functions[selected_apis[ai]], result))
            /\ printed' = Append(printed, [ki |-> ki, api_num |-> selected_apis[ai], status |-> WORKED])
    /\ response' = NoResponse
    /\ result' = None
    /\ pc' = "api_loop"
    /\ UNCHANGED <<verbose, api_keys, output_file, ki, ai, invoked, errors, interrupts,
                   exit_status, file, limVars, probeVars, selVars>>

\* `if output_file:` is false
NoSave ==
    /\ pc = "save"
    /\ ~truthy(output_file)
    /\ pc' = "return"
    /\ UNCHANGED <<limVars, probeVars, respVars, selVars, runVars>>

\* open(output_file, 'w') empties the file, or raises and the error is logged
OpenFile ==
    /\ pc = "save"
    /\ truthy(output_file)
    /\ \/ /\ file' = [state |-> "open", data |-> <<>>]
          /\ pc' = "dump"
          /\ UNCHANGED errors
       \/ /\ errors' = Append(errors, [by |-> "save_results_to_file", ki |-> 0, api_num |-> 0])
          /\ pc' = "return"
          /\ UNCHANGED file
    /\ UNCHANGED <<api_keys, output_file, ki, ai, api_results, invoked, printed, interrupts,
                   exit_status, limVars, probeVars, respVars, selVars>>

\* json.dump(output_data, f, indent=2) and the end of the with block
DumpFile ==
    /\ pc = "dump"
    /\ file' = [state |-> "written", data |-> output_data(api_results)]
    /\ pc' = "return"
    /\ UNCHANGED <<api_keys, output_file, ki, ai, api_results, invoked, printed, errors,
                   interrupts, exit_status, limVars, probeVars, respVars, selVars>>

\* test_api_keys and main return: the process ends with status 0
Return ==
    /\ pc = "return"
    /\ exit_status' = 0
    /\ pc' = "done"
    /\ UNCHANGED <<api_keys, output_file, ki, ai, api_results, invoked, printed, errors,
                   interrupts, file, limVars, probeVars, respVars, selVars>>

\* where a KeyboardInterrupt reaches main's handler
Interruptible ==
    {"start", "key_loop", "api_loop", "probe", "record", "save", "dump", "return"}

\* Ctrl-C outside process_response's try block: no handler before main's
Interrupt ==
    /\ pc \in Interruptible
    /\ interrupts < MaxInterrupts
    /\ interrupts' = interrupts + 1
    /\ pc' = "KeyboardInterrupt"
    /\ UNCHANGED <<api_keys, output_file, ki, ai, api_results, invoked, printed, errors,
                   exit_status, file, limVars, probeVars, respVars, selVars>>

\* Ctrl-C inside the try block: the bare except passes and the last line returns
InterruptInTry ==
    /\ pc = "json_try"
    /\ interrupts < MaxInterrupts
    /\ interrupts' = interrupts + 1
    /\ result' = fall_through(response, verbose)
    /\ pc' = "record"
    /\ UNCHANGED <<response, verbose, api_keys, output_file, ki, ai, api_results, invoked,
                   printed, errors, exit_status, file, limVars, probeVars, selVars>>

\* main's except KeyboardInterrupt: the notice, then exit(0)
HandleInterrupt ==
    /\ pc = "KeyboardInterrupt"
    /\ printed' = Append(printed, [ki |-> 0, api_num |-> 0, status |-> <<"[","!","]"," ","E","x","i","t","i","n","g",".",".",".">>])
    /\ exit_status' = 0
    /\ pc' = "exited"
    /\ UNCHANGED <<api_keys, output_file, ki, ai, api_results, invoked, errors, interrupts,
                   file, limVars, probeVars, respVars, selVars>>

Next ==
    \/ StartRun \/ NextKey \/ EndOfKeys \/ CallProbe \/ SkipUnknown \/ EndOfApis
    \/ ProbeClassifies \/ ProbeReturns \/ ProbeRaises
    \/ JsonTry \/ Record
    \/ NoSave \/ OpenFile \/ DumpFile \/ Return
    \/ Interrupt \/ InterruptInTry \/ HandleInterrupt

Init == InitRun

Spec == Init /\ [][Next]_vars

---------------------------------------------------------------------------
(* A probe called on its own *)

\* one probe of each kind, and two of the kind that only calls process_response
ProbeNumbers == {1, 2, 4, 7, 8, 33, LastId}

\* bodies a probe can receive: those of the runs, every vocabulary entry by
\* itself and in lower case inside other text, the error page, the Firebase
\* body, and text without any of these
ProbeBodies ==
    RunBodies
    \cup {error_messages[i] : i \in 1..Len(error_messages)}
    \cup { MissingEmailBody,
           <<"P","N","G"," ","p","e","r","m","i","s","s","i","o","n","_","d","e","n","i","e","d">>,
           <<"P","N","G">>,
           <<"<","h","t","m","l",">","W","e","'","r","e"," ","s","o","r","r","y",".",".",".","<","/","h","t","m","l",">">> }

ProbeStatusCodes == StatusCodes \cup {401}

ProbeResponsesOf(number) ==
    [status_code : ProbeStatusCodes,
     text : ProbeBodies,
     content_type : IF probe_kind(number) = "image"
                    THEN {JsonContentType, ImageContentType, None}
                    ELSE {JsonContentType},
     url : {<<>>}]
    \cup {ConnectionError}

InitProbe ==
    /\ pc = "call"
    /\ \E number \in ProbeNumbers :
          /\ selected_apis = <<number>>
          /\ search_response \in SearchesOf(number)
          /\ response \in ProbeResponsesOf(number)
    /\ api_selection = None
    /\ selection_tokens = <<>>
    /\ api_keys = <<KeyA>>
    /\ ki = 1
    /\ ai = 1
    /\ verbose \in BOOLEAN
    /\ result = None
    /\ requests_made = 0
    /\ output_file = None
    /\ api_results = <<>>
    /\ invoked = <<>>
    /\ printed = <<>>
    /\ errors = <<>>
    /\ interrupts = 0
    /\ exit_status = NotExited
    /\ file = NoFile
    /\ LimiterIdle

\* test_function(key, verbose) from its first line to its return or its
\* exception, process_response included
Probe ==
    /\ pc = "call"
    /\ LET p == CurrentProbe(search_response, response)
       IN  /\ requests_made' = p.requests
           /\ CASE p.do = "raise" ->
                     /\ pc' = "raised"
                     /\ UNCHANGED <<result, errors>>
                [] p.do = "return" ->
                     /\ result' = p.value
                     /\ pc' = "returned"
                     /\ UNCHANGED errors
                [] p.do = "logged_return" ->
                     /\ result' = p.value
                     /\ errors' = Append(errors, [by |-> "probe", ki |-> ki, api_num |-> selected_apis[ai]])
                     /\ pc' = "returned"
                [] p.do = "classify" ->
                     /\ result' = process_response(p.resp, verbose)
                     /\ pc' = "returned"
                     /\ UNCHANGED errors
    /\ UNCHANGED <<response, verbose, search_response, api_keys, output_file, ki, ai,
                   api_results, invoked, printed, interrupts, exit_status, file,
                   limVars, selVars>>

NextProbe == Probe

SpecProbe == InitProbe /\ [][NextProbe]_vars

---------------------------------------------------------------------------
(* Claims about process_response, under SpecClassify *)

\* the lower-case text low contains w in lower case
in_lower(w, low) == str_in(str_lower(w), low)

\* the body contains w in some letter case
mentions(w, text) == in_lower(w, str_lower(text))

\* the first entry of an order that the body mentions
FirstMentioned(order, text) ==
    LET low == str_lower(text)
    IN  order[Min({i \in 1..Len(order) : in_lower(order[i], low)})]

\* process_response has returned
Classified == pc = "record"

\* the body mentions two or more vocabulary entries and is no error page
SeveralDenials ==
    /\ Classified
    /\ ~is_error_page(response.text)
    /\ LET low == str_lower(response.text)
       IN  Cardinality({i \in 1..Len(ERROR_MESSAGES) : in_lower(ERROR_MESSAGES[i], low)}) >= 2

\* the order the scan was found to follow
ScanPriority ==
    << ADMIN_ONLY_OPERATION, UNAUTHENTICATED, PERMISSION_DENIED, INVALID_ARGUMENT,
       REQUEST_DENIED, REJECTED, BLOCKED, BAD_REQUEST, INSUFFICIENTFILEPERMISSIONS >>

C3_PermissionDeniedAlways ==
    (Classified /\ mentions(PERMISSION_DENIED, response.text)) => result = PERMISSION_DENIED

\* C3 amended: a body that contains PERMISSION_DENIED in any letter case, is no
\* error page and contains neither ADMIN_ONLY_OPERATION nor UNAUTHENTICATED in
\* any letter case is classified PERMISSION_DENIED, whatever the status code
\* and the rest of the body.
C3_PermissionDeniedUnlessEarlier ==
    ( /\ Classified
      /\ mentions(PERMISSION_DENIED, response.text)
      /\ ~is_error_page(response.text)
      /\ ~mentions(ADMIN_ONLY_OPERATION, response.text)
      /\ ~mentions(UNAUTHENTICATED, response.text) )
    => result = PERMISSION_DENIED

\* C3 witness: a 200 response with permission_denied in lower case next to a
\* later vocabulary entry was classified PERMISSION_DENIED
C3_Witness ==
    /\ Classified
    /\ response.status_code = 200
    /\ str_in(<<"p","e","r","m","i","s","s","i","o","n","_","d","e","n","i","e","d">>, response.text)
    /\ mentions(BLOCKED, response.text)
    /\ result = PERMISSION_DENIED

---------------------------------------------------------------------------
(* Claims about RateLimiter, under SpecLimiter *)

\* the calls of wait() that returned in the period that starts when call i returned
ReturnedWithin(i) ==
    {j \in 1..Len(history) :
        history[i].end <= history[j].end /\ history[j].end < history[i].end + period}

\* C1: with calls >= 1 and period > 0, at most `calls` calls of wait() return
\* within any interval of length period.
C1_AtMostCallsPerPeriod ==
    (calls >= 1 /\ period > 0)
    => \A i \in 1..Len(history) : Cardinality(ReturnedWithin(i)) <= calls

---------------------------------------------------------------------------
(* Claims about parse_api_selection, under SpecParse *)

Parsed == pc = "parsed"

\* the integers a token list names
Named(ts) ==
    UNION {IF Len(ts[i]) = 1 THEN {ts[i][1]} ELSE ts[i][1]..ts[i][2] : i \in 1..Len(ts)}

StrictlyAscending(l) == \A i \in 1..(Len(l) - 1) : l[i] < l[i + 1]

\* C8: for a selection made of comma-separated integers and start-end ranges
\* the result is strictly ascending, without duplicates, and holds exactly the
\* integers the tokens name, whatever their order and repetition.
C8_SelectionSortedAndExact ==
    (Parsed /\ selection_tokens # <<>>)
    => /\ StrictlyAscending(selected_apis)
       /\ {selected_apis[i] : i \in 1..Len(selected_apis)} = Named(selection_tokens)

\* C8 witness: "44,0-1,1" was parsed to 0, 1, 44
C8_Witness ==
    /\ Parsed
    /\ selection_tokens = << <<LastId>>, <<0, 1>>, <<1>> >>
    /\ selected_apis = <<0, 1, LastId>>

\* C9: for None and for the empty string the result is the ids 1..N in
\* order, every one of them has a descriptor, and every id that has a
\* descriptor is among them.
C9_DefaultIsTheCatalog ==
    (Parsed /\ api_selection \in {None, <<>>})
    => /\ selected_apis = [i \in 1..Len(selected_apis) |-> i]
       /\ \A i \in 1..Len(selected_apis) : has_api_function(selected_apis[i])
       /\ \A n \in 0..(Len(api_functions) + 1) :
              has_api_function(n) => \E i \in 1..Len(selected_apis) : selected_apis[i] = n

\* C9 witness: None was parsed, to a list that ends with the id of the last descriptor
C9_Witness ==
    /\ Parsed
    /\ api_selection = None
    /\ selected_apis # <<>>
    /\ selected_apis[Len(selected_apis)] = Len(api_functions)

---------------------------------------------------------------------------
(* Claims about test_api_keys and main, under Spec *)

\* the selected ids that have a descriptor, ascending, from the selection as written
ExpectedIds == sorted(Named(selection_tokens) \cap DOMAIN api_functions)

\* the probe calls of a run that nothing stops: key by key, id by id
ExpectedProbes ==
    Concat([k \in 1..Len(api_keys) |-> [i \in 1..Len(ExpectedIds) |-> <<k, ExpectedIds[i]>>]])

IsPrefix(s, t) == Len(s) <= Len(t) /\ s = SubSeq(t, 1, Len(s))

\* the pairs for which test_api_keys caught an exception of the probe
RaisedPairs ==
    {<<errors[i].ki, errors[i].api_num>> : i \in {j \in 1..Len(errors) : errors[j].by = "test_api_keys"}}

\* the pairs that have a result line, and those whose line says WORKED
PrintedPairs == {<<printed[i].ki, printed[i].api_num>> : i \in 1..Len(printed)}
WorkedPairs ==
    {<<printed[i].ki, printed[i].api_num>> : i \in {j \in 1..Len(printed) : printed[j].status = WORKED}}

\* C4: once a KeyboardInterrupt has been delivered, at whatever point of the
\* run, no further probe is invoked.
C4_NoProbeAfterInterrupt == [][interrupts > 0 => invoked' = invoked]_vars

\* C5: a run ended by Ctrl-C exits with a status that is not 0, the status of
\* a run that completes.
C5_InterruptExitsNonZero == pc = "exited" => exit_status # 0

\* C6: a pair whose probe raised has no result line and no entry of its own,
\* the probes are called in the order of a run without exceptions, a run that
\* ends has called them all, and it ends with status 0, never with a traceback.
C6_ExceptionSkipsOnlyThePair ==
    /\ RaisedPairs \cap PrintedPairs = {}
    /\ \A k \in DOMAIN api_results : \A n \in DOMAIN api_results[k] :
          \E p \in WorkedPairs : api_keys[p[1]] = k /\ api_functions[p[2]] = n
    /\ IsPrefix(invoked, ExpectedProbes)
    /\ pc # "uncaught"
    /\ pc = "done" => (invoked = ExpectedProbes /\ exit_status = 0)

\* C6 witness: the probe of the first id raised for the first key, and the run
\* went on through both ids of both keys to its end
C6_Witness ==
    /\ pc = "done"
    /\ <<1, 1>> \in RaisedPairs
    /\ invoked = << <<1, 1>>, <<1, 2>>, <<2, 1>>, <<2, 2>> >>
    /\ <<1, 2>> \in WorkedPairs

DistinctKeys == \A i, j \in 1..Len(api_keys) : i # j => api_keys[i] # api_keys[j]

\* the display names of the ids whose line for the key at index i says WORKED
WorkedNames(i) == {api_functions[p[2]] : p \in {q \in WorkedPairs : q[1] = i}}

\* C7: with pairwise distinct keys, the written file has one entry per tested
\* key, and under a key exactly the display names of the endpoints classified
\* Worked for it, each with the value "Success".
C7_FileHoldsTheSuccesses ==
    (file.state = "written" /\ DistinctKeys)
    => /\ DOMAIN file.data = {api_keys[i] : i \in 1..Len(api_keys)}
       /\ \A i \in 1..Len(api_keys) :
             file.data[api_keys[i]] = [n \in WorkedNames(i) |-> "Success"]

\* C7 witness: a file written for two keys, the first with a denial and a
\* raised probe and so an empty object, the second with a success
C7_Witness ==
    /\ file.state = "written"
    /\ api_keys = <<KeyA, KeyB>>
    /\ DOMAIN file.data[KeyA] = {}
    /\ DOMAIN file.data[KeyB] # {}
    /\ <<1, 1>> \in PrintedPairs \ WorkedPairs
    /\ <<1, 2>> \in RaisedPairs

\* C10: every probe call is preceded by one call of the rate limiter's wait(),
\* so as many calls of wait() as of probes have been made.
C10_OneWaitPerProbe == Len(history) = Len(invoked)

---------------------------------------------------------------------------
(* Claims about the verdicts of a run, under Spec *)

\* the result lines of the pair of the key at index k and the id n
LinesFor(k, n) == {i \in 1..Len(printed) : printed[i].ki = k /\ printed[i].api_num = n}

\* C11 as stated: in a run that ends normally every pair of a tested key and a
\* selected existing endpoint has exactly one verdict.
C11_ExactlyOneVerdict ==
    pc = "done"
    => \A k \in 1..Len(api_keys) : \A i \in 1..Len(ExpectedIds) :
          Cardinality(LinesFor(k, ExpectedIds[i])) = 1

\* C11 amended: in a run that ends normally every pair of a key of the list
\* (each occurrence counted) and a selected existing endpoint has exactly one
\* verdict, unless its probe raised an exception, and then it has none.
C11_OneVerdictUnlessRaised ==
    pc = "done"
    => \A k \in 1..Len(api_keys) : \A i \in 1..Len(ExpectedIds) :
          Cardinality(LinesFor(k, ExpectedIds[i])) =
              IF <<k, ExpectedIds[i]>> \in RaisedPairs THEN 0 ELSE 1

\* C11 witness: a run over two keys and two ids has ended, one probe raised
\* and the three other pairs have a verdict each
C11_Witness ==
    /\ pc = "done"
    /\ Len(api_keys) = 2
    /\ RaisedPairs = {<<2, 1>>}
    /\ Len(printed) = 3
    /\ PrintedPairs = {<<1, 1>>, <<1, 2>>, <<2, 2>>}

---------------------------------------------------------------------------
(* Claims about the probes, under SpecProbe *)

\* the probe that was called
Called == pc # "call"
CalledKind == probe_kind(selected_apis[ai])

\* the response has a Content-Type that begins with image/
ImageResponse ==
    /\ response # ConnectionError
    /\ response.content_type # None
    /\ startswith(response.content_type, <<"i","m","a","g","e","/">>)

\* C12: an image probe that receives a Content-Type beginning with image/
\* returns a success, whatever the body and whether verbose is on or off.
C12_ImageIsSuccess ==
    (Called /\ CalledKind = "image" /\ ImageResponse)
    => (pc = "returned" /\ ~in_ERROR_MESSAGES(result))

\* C13: whenever the search response holds no photo reference, the Places
\* Photos probe returns BAD REQUEST after its one request, and it makes the
\* second request only when there is a reference.
C13_NoReferenceIsBadRequest ==
    (Called /\ CalledKind = "photos" /\ search_response # ConnectionError)
    => IF search_response.text = SearchWithReference
       THEN requests_made = 2
       ELSE pc = "returned" /\ result = BAD_REQUEST /\ requests_made = 1

\* the probe returned a denial: a literal of the Places Photos or the Cloud
\* Storage probe, or process_response's error page, scan or try-block return
ReturnedDenial ==
    LET p == CurrentProbe(search_response, response)
    IN  \/ p.do \in {"return", "logged_return"} /\ CalledKind \in {"photos", "storage"}
        \/ /\ p.do = "classify"
           /\ \/ is_error_page(p.resp.text)
              \/ first_error(p.resp.text) # 0
              \/ auth_failure(p.resp)

\* C19: what a probe returns is a member of ApiTester.ERROR_MESSAGES exactly
\* when it is a denial, for every response and both verbosity settings.
C19_DenialTestAgrees ==
    pc = "returned" => (in_ERROR_MESSAGES(result) <=> ReturnedDenial)

\* C19 witness: the scan returned ADMIN_ONLY_OPERATION, which the two lists
\* hold at different places
C19_Witness ==
    /\ pc = "returned"
    /\ CalledKind = "plain"
    /\ result = ADMIN_ONLY_OPERATION
    /\ ReturnedDenial
    /\ in_ERROR_MESSAGES(result)

---------------------------------------------------------------------------
(* More claims about RateLimiter, under SpecLimiter *)

\* C14: wait() never raises, whatever calls and period are; it sleeps at most
\* once, and never for a zero or negative duration.
C14_WaitNeverRaises ==
    /\ pc # "IndexError"
    /\ \A i \in 1..Len(history) :
          /\ Len(history[i].sleeps) <= 1
          /\ \A j \in 1..Len(history[i].sleeps) : history[i].sleeps[j] > 0

\* every call of wait() began more than period after the one before
SpacedOut == \A i \in 2..Len(history) : history[i].begin - history[i - 1].begin > period

\* the first calls + 1 calls of wait() all began less than period after the first
Burst ==
    /\ Len(history) >= calls + 1
    /\ history[calls + 1].begin < history[1].begin + period

\* C15: from an empty window and with calls >= 1, the call number calls + 1 of
\* a burst sleeps a positive duration and records the time it began at, and
\* calls spaced more than period apart never sleep.
C15_BurstSleepsSpacedDoesNot ==
    calls >= 1
    => /\ Burst => /\ history[calls + 1].sleeps # <<>>
                   /\ history[calls + 1].slept > 0
                   /\ history[calls + 1].end = history[calls + 1].begin + history[calls + 1].slept
       /\ SpacedOut => \A i \in 1..Len(history) : history[i].sleeps = <<>>

\* C15 witness: with calls = 2 the third call of a burst has slept
C15_Witness ==
    /\ calls = 2
    /\ Burst
    /\ history[1].sleeps = <<>>
    /\ history[2].sleeps = <<>>
    /\ history[3].slept > 0

\* calls spaced more than period apart have returned without a sleep
C15_SpacedWitness ==
    /\ calls >= 1
    /\ period >= 1
    /\ Len(history) >= 3
    /\ SpacedOut
    /\ \A i \in 1..Len(history) : history[i].sleeps = <<>>

---------------------------------------------------------------------------
(* The try block of process_response, under SpecClassify *)

\* process_response has returned for a response with a status of 400 or more
\* and a body that is no error page and mentions no vocabulary entry
PastTheScan ==
    /\ Classified
    /\ response.status_code >= 400
    /\ ~is_error_page(response.text)
    /\ LET low == str_lower(response.text)
       IN  \A i \in 1..Len(ERROR_MESSAGES) : ~in_lower(ERROR_MESSAGES[i], low)

\* the body is an error object whose message asks for authentication
AsksForAuthentication ==
    \E m \in Messages :
        /\ response.text = JsonError(m)
        /\ \/ mentions(<<"a","u","t","h","e","n","t","i","c","a","t","i","o","n">>, m)
           \/ mentions(<<"r","e","q","u","i","r","e","d">>, m)
           \/ mentions(<<"c","o","n","f","i","g","u","r","e","d"," ","f","o","r"," ","f","i","r","s","t","-","p","a","r","t","y">>, m)

\* C16: process_response never raises; past the scan, a body that cannot be
\* parsed or has no such message is classified Worked, with the full text as
\* payload when verbose, and the verdict is PERMISSION_DENIED only for an error
\* object whose message asks for authentication.
C16_TryBlockNeverRaises ==
    /\ pc \in {"classify", "json_try", "record"}
    /\ PastTheScan
       => result = IF AsksForAuthentication THEN PERMISSION_DENIED
                   ELSE IF verbose THEN response.text ELSE WORKED

\* C16 witness: a verbose 400 response with a body that is not JSON was
\* classified Worked with its text as payload
C16_Witness ==
    /\ PastTheScan
    /\ verbose
    /\ response.text = <<"o","k">>
    /\ response.status_code = 400
    /\ result = response.text

---------------------------------------------------------------------------
(* Claims about the result set and the output file, under Spec *)

\* test_api_keys is about to return, or has returned, its result set
AtTheEnd == pc \in {"save", "dump", "return", "done"}

\* C17: a success recorded under a key and a display name is in the result
\* set the run returns, and in the file it saves, also when the list repeats
\* a key.
C17_SuccessesAreKept ==
    AtTheEnd
    => \A p \in WorkedPairs :
          /\ api_functions[p[2]] \in DOMAIN api_results[api_keys[p[1]]]
          /\ file.state = "written" => api_functions[p[2]] \in DOMAIN file.data[api_keys[p[1]]]

\* C18 as stated: a run ended by an interrupt leaves no output file.
C18_NoFileAfterInterrupt == pc = "exited" => file.state = "absent"

\* the loops are over: every key and every selected id has been processed
LoopsOver ==
    /\ pc \in {"save", "dump", "return", "done", "KeyboardInterrupt", "exited"}
    /\ ki = Len(api_keys)
    /\ invoked = ExpectedProbes
    /\ PrintedPairs \cup RaisedPairs = {ExpectedProbes[i] : i \in 1..Len(ExpectedProbes)}

\* C18 amended: the file is opened once and written once, in this order and
\* only after every key and every selected id has been processed; so a run
\* that an interrupt ends before the loops are over leaves no file.
C18_FileOnlyAfterTheLoops ==
    [][file' # file
       => /\ LoopsOver
          /\ \/ file.state = "absent" /\ file'.state = "open"
             \/ file.state = "open" /\ file'.state = "written"]_vars

\* C18 witness: an interrupt ended a run that had an output path and a
\* recorded success before its loops were over, and there is no file
C18_Witness ==
    /\ pc = "exited"
    /\ truthy(output_file)
    /\ \E k \in DOMAIN api_results : DOMAIN api_results[k] # {}
    /\ ~LoopsOver
    /\ file.state = "absent"

====
